---------------------------- MODULE Spec2Model ----------------------------
(***************************************************************************)
(* The policy controller of pkg/auth/controller/policy: informer event     *)
(* handlers feed a rate-limited delaying work queue, a pool of workers     *)
(* pops keys and runs syncItem on them, Run wires start-up and shutdown.   *)
(*                                                                         *)
(* Time is counted in milliseconds.  Timers are kept as the time that      *)
(* remains until they are due, so no absolute clock is needed.             *)
(***************************************************************************)
EXTENDS Integers, Sequences, FiniteSets, TLC

(***************************************************************************)
(* Bounds of the model.                                                    *)
(***************************************************************************)
NumWorkers == 2      \* the `workers` argument of Run
MaxEvents == 3       \* informer notifications delivered in one behaviour
MaxFailures == 3     \* consecutive failures of one key
MaxRetries == 20     \* consecutive failures of one key when it is followed alone

(***************************************************************************)
(* Program constants.                                                      *)
(***************************************************************************)
policyDeletionGracePeriod == 5000   \* 5 * time.Second
BaseDelay == 5                      \* DefaultControllerRateLimiter: 5 ms
MaxDelay == 1000000                 \* DefaultControllerRateLimiter: 1000 s

Workers == 1..NumWorkers
Names == {"a"}
\* A key is the sequence of the "/"-separated segments of the key string.
BadKey == <<"x", "y", "z">>
Keys == {<<n>> : n \in Names} \cup {BadKey}

NoTimer == 0 - 1   \* no timer is set for the key
NoKey == <<>>
NoObj == [present |-> FALSE, uid |-> 0, spec |-> 0, status |-> 0]
Policy(u, s, t) == [present |-> TRUE, uid |-> u, spec |-> s, status |-> t]

Min(a, b) == IF a <= b THEN a ELSE b
Max(a, b) == IF a >= b THEN a ELSE b
RECURSIVE Pow2(_)
Pow2(n) == IF n = 0 THEN 1 ELSE 2 * Pow2(n - 1)

VARIABLES
  cache,        \* the informer's store, read through c.lister
  hasSynced,    \* c.listerSynced()
  stopCh,       \* TRUE once stopCh is closed
  runPc,        \* where Run is
  syncOk,       \* the result of cache.WaitForCacheSync in Run
  queue,        \* c.queue: ready list, dirty and processing sets, timers, backoff
  pc,           \* where each worker goroutine is
  wkey,         \* the key a worker holds
  wres,         \* what syncItem returned to the worker (requeue, err), and why
  calls,        \* history: the calls a worker made so far for the key it holds
  entrySrc,     \* history: who created a key's timer ("update", "delete", "backoff")
  entryAge,     \* history: time elapsed since the timer was created (capped)
  nev           \* history: number of informer notifications delivered

vars == <<cache, hasSynced, stopCh, runPc, syncOk, queue, pc, wkey, wres,
          calls, entrySrc, entryAge, nev>>


(***************************************************************************)
(* Object keys.                                                            *)
(***************************************************************************)
\* cache.SplitMetaNamespaceKey: one segment is a cluster-scoped name, two are
\* namespace/name, anything else is an error.
SplitMetaNamespaceKey(key) ==
  IF Len(key) = 1 THEN [err |-> FALSE, namespace |-> "", name |-> key[1]]
  ELSE IF Len(key) = 2 THEN [err |-> FALSE, namespace |-> key[1], name |-> key[2]]
  ELSE [err |-> TRUE, namespace |-> "", name |-> ""]

\* What an event handler is handed: a Policy of the cache (cluster-scoped, so
\* its key is its name), a DeletedFinalStateUnknown tombstone carrying a key
\* verbatim, or an object no key can be derived from.
PolicyObj(n) == [kind |-> "policy", key |-> <<n>>]
Tombstone(k) == [kind |-> "tombstone", key |-> k]
Unkeyable == [kind |-> "unkeyable", key |-> NoKey]

\* controllerutil.KeyFunc as called by enqueue.
KeyFunc(obj) ==
  IF obj.kind = "unkeyable" THEN [err |-> TRUE, key |-> NoKey]
  ELSE [err |-> FALSE, key |-> obj.key]

(***************************************************************************)
(* The work queue (workqueue.RateLimitingInterface).  Each operator maps a *)
(* queue value to the queue value after the call.                          *)
(***************************************************************************)
EmptyQueue ==
  [items |-> <<>>, dirty |-> {}, processing |-> {}, shuttingDown |-> FALSE,
   waiting |-> [k \in Keys |-> NoTimer], failures |-> [k \in Keys |-> 0]]

\* add(key): immediate; a no-op when the key is already pending; a key that
\* is being processed is only marked and queued again by done.
Add(q, k) ==
  IF q.shuttingDown \/ k \in q.dirty THEN q
  ELSE IF k \in q.processing THEN [q EXCEPT !.dirty = @ \cup {k}]
  ELSE [q EXCEPT !.dirty = @ \cup {k}, !.items = Append(@, k)]

\* addAfter(key, delay): not before now + delay.  A key that is already
\* pending keeps the earlier of its schedules and gets no second entry.
AddAfter(q, k, d) ==
  IF q.shuttingDown THEN q
  ELSE IF d <= 0 THEN Add(q, k)
  ELSE IF k \in q.dirty THEN q
  ELSE IF q.waiting[k] = NoTimer THEN [q EXCEPT !.waiting[k] = d]
  ELSE [q EXCEPT !.waiting[k] = Min(@, d)]

\* The per-key failure counter of the rate limiter.  The delay is
\* min(BaseDelay * 2^failures, MaxDelay).
NumRequeues(q, k) == q.failures[k]

When(q, k) == Min(BaseDelay * Pow2(NumRequeues(q, k)), MaxDelay)

\* addRateLimited(key): addAfter with the key's back-off delay, one more failure.
AddRateLimited(q, k) ==
  AddAfter([q EXCEPT !.failures[k] = @ + 1], k, When(q, k))

\* forget(key): the failure counter of the key starts over.
Forget(q, k) == [q EXCEPT !.failures[k] = 0]

\* get(): blocks while nothing is ready and the queue is open.
GetBlocks(q) == q.items = <<>> /\ ~q.shuttingDown
\* A queue that is shut down delivers nothing: get() returns the terminal signal.
GetQuit(q) == q.shuttingDown
GetItem(q) == Head(q.items)
AfterGet(q) ==
  [q EXCEPT !.items = Tail(@),
            !.processing = @ \cup {Head(q.items)},
            !.dirty = @ \ {Head(q.items)}]

\* done(key): processing is over; a key re-added meanwhile becomes ready.
Done(q, k) ==
  IF k \in q.dirty
  THEN [q EXCEPT !.processing = @ \ {k}, !.items = Append(@, k)]
  ELSE [q EXCEPT !.processing = @ \ {k}]

ShutDown(q) == [q EXCEPT !.shuttingDown = TRUE]

(***************************************************************************)
(* The controller's own functions.                                         *)
(***************************************************************************)
\* needsUpdate comparing the whole objects, status included.
needsUpdate_WholeObject(old, new) == old # new

\* needsUpdate without the comparison of the UIDs.
needsUpdate_SpecOnly(old, new) == old.spec # new.spec

\* Controller.needsUpdate
needsUpdate(old, new) ==
  IF old.uid # new.uid THEN TRUE
  ELSE IF old.spec # new.spec THEN TRUE
  ELSE FALSE

\* enqueue without the return after KeyFunc's error: it goes on and
\* schedules an unusable key.
enqueue_KeyErrorIgnored(q, obj) ==
  LET r == KeyFunc(obj) IN
  IF r.err THEN AddAfter(q, BadKey, policyDeletionGracePeriod)
  ELSE AddAfter(q, r.key, policyDeletionGracePeriod)

\* enqueue with Add in place of AddAfter: no grace period.
enqueue_NoGracePeriod(q, obj) ==
  LET r == KeyFunc(obj) IN
  IF r.err THEN q
  ELSE Add(q, r.key)

\* Controller.enqueue
enqueue(q, obj) ==
  LET r == KeyFunc(obj) IN
  IF r.err THEN q
  ELSE AddAfter(q, r.key, policyDeletionGracePeriod)

\* UpdateFunc adding the key at once instead of calling enqueue.
UpdateFunc_AddNow(q, n, old, cur) ==
  IF old.present /\ cur.present /\ needsUpdate(old, cur)
  THEN Add(q, <<n>>)
  ELSE q

\* The UpdateFunc registered in NewController.  old and cur are the objects
\* of a Policy informer, so both type assertions succeed on cached objects.
UpdateFunc(q, n, old, cur) ==
  IF old.present /\ cur.present /\ needsUpdate(old, cur)
  THEN enqueue(q, PolicyObj(n))
  ELSE q

\* The DeleteFunc registered in NewController.
DeleteFunc(q, obj) == enqueue(q, obj)

\* c.lister.Get(name): the cached object, not-found, or another error.
ListerGet(name, fails) ==
  IF fails THEN "error"
  ELSE IF name \in Names /\ cache[name].present THEN "found"
  ELSE "notfound"

\* syncItem dropping a key that does not split: logged, return false, nil.
syncItem_BadKeyDropped(key, fails) ==
  LET split == SplitMetaNamespaceKey(key) IN
  IF split.err THEN [fetch |-> "badkey", requeue |-> FALSE, err |-> FALSE]
  ELSE LET got == ListerGet(split.name, fails) IN
       [fetch |-> got, requeue |-> FALSE, err |-> FALSE]

\* syncItem treating not-found like any other failure.
syncItem_NotFoundIsError(key, fails) ==
  LET split == SplitMetaNamespaceKey(key) IN
  IF split.err THEN [fetch |-> "badkey", requeue |-> FALSE, err |-> TRUE]
  ELSE LET got == ListerGet(split.name, fails) IN
       IF got = "notfound" THEN [fetch |-> got, requeue |-> FALSE, err |-> TRUE]
       ELSE [fetch |-> got, requeue |-> FALSE, err |-> FALSE]

\* Controller.syncItem: what it returns for a key, given the lister's answer.
\* Only the key that does not split yields an error; the branch that logs
\* "Unable to retrieve policy from store" falls through to return false, nil.
syncItem(key, fails) ==
  LET split == SplitMetaNamespaceKey(key) IN
  IF split.err THEN [fetch |-> "badkey", requeue |-> FALSE, err |-> TRUE]
  ELSE LET got == ListerGet(split.name, fails) IN
       IF got = "notfound" THEN [fetch |-> got, requeue |-> FALSE, err |-> FALSE]
       ELSE IF got = "error" THEN [fetch |-> got, requeue |-> FALSE, err |-> FALSE]
       ELSE [fetch |-> got, requeue |-> FALSE, err |-> FALSE]

NoResult == [fetch |-> "none", requeue |-> FALSE, err |-> FALSE]

(***************************************************************************)
(* History of the timers: which call created a key's timer, and how long   *)
(* ago.  q2 is the queue after a call made on behalf of `cause`.           *)
(***************************************************************************)
TimerSet(q, q2) ==
  {k \in Keys : q2.waiting[k] # NoTimer /\ q2.waiting[k] # q.waiting[k]}

Stamp(q2, cause) ==
  /\ entrySrc' = [k \in Keys |->
        IF k \in TimerSet(queue, q2) THEN cause
        ELSE IF q2.waiting[k] = NoTimer THEN "none" ELSE entrySrc[k]]
  /\ entryAge' = [k \in Keys |->
        IF k \in TimerSet(queue, q2) \/ q2.waiting[k] = NoTimer THEN 0
        ELSE entryAge[k]]

(***************************************************************************)
(* Initial state: the state NewController returns in, Run not yet started. *)
(***************************************************************************)
Init ==
  /\ cache = [n \in Names |-> NoObj]
  /\ hasSynced = FALSE
  /\ stopCh = FALSE
  /\ runPc = "waitSync"
  /\ syncOk = FALSE
  /\ queue = EmptyQueue
  /\ pc = [w \in Workers |-> "idle"]
  /\ wkey = [w \in Workers |-> NoKey]
  /\ wres = [w \in Workers |-> NoResult]
  /\ calls = [w \in Workers |-> <<>>]
  /\ entrySrc = [k \in Keys |-> "none"]
  /\ entryAge = [k \in Keys |-> 0]
  /\ nev = 0

(***************************************************************************)
(* The informer: notifications are delivered one at a time.                *)
(***************************************************************************)
ctlVars == <<hasSynced, stopCh, runPc, syncOk, pc, wkey, wres, calls>>

\* InformerAdd with AddFunc: controller.enqueue registered.
InformerAdd_AddFuncRegistered(n) ==
  /\ nev < MaxEvents
  /\ ~cache[n].present
  /\ cache' = [cache EXCEPT ![n] = Policy(1, 1, 1)]
  /\ queue' = enqueue(queue, PolicyObj(n))
  /\ Stamp(queue', "update")
  /\ nev' = nev + 1
  /\ UNCHANGED ctlVars

\* A create notification: no AddFunc is registered.
InformerAdd(n) ==
  /\ nev < MaxEvents
  /\ ~cache[n].present
  /\ cache' = [cache EXCEPT ![n] = Policy(1, 1, 1)]
  /\ nev' = nev + 1
  /\ UNCHANGED <<queue, entrySrc, entryAge, ctlVars>>

\* An update notification with the old and the new object.
InformerUpdate(n, cur) ==
  /\ nev < MaxEvents
  /\ cache[n].present
  /\ cur # cache[n]
  /\ cache' = [cache EXCEPT ![n] = cur]
  /\ queue' = UpdateFunc(queue, n, cache[n], cur)
  /\ Stamp(queue', "update")
  /\ nev' = nev + 1
  /\ UNCHANGED ctlVars

\* The periodic resync: an update notification whose old and new object are
\* the cached object.
InformerResync(n) ==
  /\ nev < MaxEvents
  /\ cache[n].present
  /\ queue' = UpdateFunc(queue, n, cache[n], cache[n])
  /\ Stamp(queue', "update")
  /\ nev' = nev + 1
  /\ UNCHANGED <<cache, ctlVars>>

\* A delete notification with the deleted object.
InformerDelete(n) ==
  /\ nev < MaxEvents
  /\ cache[n].present
  /\ cache' = [cache EXCEPT ![n] = NoObj]
  /\ queue' = DeleteFunc(queue, PolicyObj(n))
  /\ Stamp(queue', "delete")
  /\ nev' = nev + 1
  /\ UNCHANGED ctlVars

\* A delete notification with a DeletedFinalStateUnknown tombstone.
InformerDeleteUnknown(k) ==
  /\ nev < MaxEvents
  /\ Len(k) = 1 => cache[k[1]].present
  /\ cache' = IF Len(k) = 1 THEN [cache EXCEPT ![k[1]] = NoObj] ELSE cache
  /\ queue' = DeleteFunc(queue, Tombstone(k))
  /\ Stamp(queue', "delete")
  /\ nev' = nev + 1
  /\ UNCHANGED ctlVars

\* A delete notification with an object KeyFunc cannot key.
InformerDeleteUnkeyable ==
  /\ nev < MaxEvents
  /\ queue' = DeleteFunc(queue, Unkeyable)
  /\ Stamp(queue', "delete")
  /\ nev' = nev + 1
  /\ UNCHANGED <<cache, ctlVars>>

\* The informer finished its initial list.
InformerSynced ==
  /\ ~hasSynced
  /\ hasSynced' = TRUE
  /\ UNCHANGED <<cache, stopCh, runPc, syncOk, queue, pc, wkey, wres, calls,
                 entrySrc, entryAge, nev>>

\* The caller of Run closes stopCh.
Stop ==
  /\ ~stopCh
  /\ stopCh' = TRUE
  /\ UNCHANGED <<cache, hasSynced, runPc, syncOk, queue, pc, wkey, wres, calls,
                 entrySrc, entryAge, nev>>

(***************************************************************************)
(* Time and the queue's timers.                                            *)
(***************************************************************************)
Pending == {k \in Keys : queue.waiting[k] > 0}

\* Time passes up to the due time of some timer.  A timer that goes unserved
\* stays due.
AdvanceSteps == {queue.waiting[k] : k \in Pending}

Advance(d) ==
  /\ Pending # {}
  /\ queue' = [queue EXCEPT !.waiting =
                 [k \in Keys |-> IF @[k] > 0 THEN Max(@[k] - d, 0) ELSE @[k]]]
  /\ entryAge' = [k \in Keys |->
                    IF queue.waiting[k] > 0
                    THEN Min(entryAge[k] + d, policyDeletionGracePeriod)
                    ELSE entryAge[k]]
  /\ UNCHANGED <<cache, entrySrc, nev, ctlVars>>

\* A due timer hands its key to add.
WaitingFire(k) ==
  /\ queue.waiting[k] = 0
  /\ queue' = Add([queue EXCEPT !.waiting[k] = NoTimer], k)
  /\ Stamp(queue', "none")
  /\ UNCHANGED <<cache, nev, ctlVars>>

(***************************************************************************)
(* Controller.Run                                                          *)
(***************************************************************************)
runFrame == <<cache, hasSynced, stopCh, wkey, wres, calls, entrySrc, entryAge, nev>>

\* cache.WaitForCacheSync(stopCh, c.listerSynced): true once the cache has
\* synced, false once stopCh is closed (either, when both are the case); the
\* failure is only logged.
RunWaitForCacheSync ==
  /\ runPc = "waitSync"
  /\ \E ok \in BOOLEAN :
       /\ ok => hasSynced
       /\ ~ok => stopCh
       /\ syncOk' = ok
  /\ runPc' = "startWorkers"
  /\ UNCHANGED <<queue, pc, runFrame>>

\* RunStartWorkers returning from Run when the wait for the cache failed.
RunStartWorkers_AbortOnFailure ==
  /\ runPc = "startWorkers"
  /\ IF syncOk
     THEN pc' = [w \in Workers |-> "until"] /\ runPc' = "waitStop"
     ELSE pc' = pc /\ runPc' = "shutDown"
  /\ UNCHANGED <<queue, syncOk, runFrame>>

\* for i := 0; i < workers; i++ { go wait.Until(c.worker, time.Second, stopCh) }
RunStartWorkers ==
  /\ runPc = "startWorkers"
  /\ pc' = [w \in Workers |-> "until"]
  /\ runPc' = "waitStop"
  /\ UNCHANGED <<queue, syncOk, runFrame>>

\* <-stopCh
RunWaitStop ==
  /\ runPc = "waitStop"
  /\ stopCh
  /\ runPc' = "shutDown"
  /\ UNCHANGED <<queue, pc, syncOk, runFrame>>

\* Run returning without c.queue.ShutDown().
RunShutDown_NoShutDown ==
  /\ runPc = "shutDown"
  /\ runPc' = "returned"
  /\ UNCHANGED <<queue, pc, syncOk, runFrame>>

\* defer c.queue.ShutDown(), and Run returns.
RunShutDown ==
  /\ runPc = "shutDown"
  /\ queue' = ShutDown(queue)
  /\ runPc' = "returned"
  /\ UNCHANGED <<pc, syncOk, runFrame>>

(***************************************************************************)
(* Controller.worker, run by wait.Until                                    *)
(***************************************************************************)
wFrame == <<cache, hasSynced, stopCh, runPc, syncOk, nev>>

\* WorkerUntil calling worker whether or not stopCh is closed.
WorkerUntil_NoStopCheck(w) ==
  /\ pc[w] = "until"
  /\ pc' = [pc EXCEPT ![w] = "get"]
  /\ UNCHANGED <<queue, wkey, wres, calls, entrySrc, entryAge, wFrame>>

\* wait.Until: the loop head checks stopCh before it calls worker.
WorkerUntil(w) ==
  /\ pc[w] = "until"
  /\ pc' = [pc EXCEPT ![w] = IF stopCh THEN "exited" ELSE "get"]
  /\ UNCHANGED <<queue, wkey, wres, calls, entrySrc, entryAge, wFrame>>

\* WorkerGet with c.queue.Done(key) called at once instead of deferred.
WorkerGet_DoneNotDeferred(w) ==
  /\ pc[w] = "get"
  /\ ~GetBlocks(queue)
  /\ IF GetQuit(queue)
     THEN /\ pc' = [pc EXCEPT ![w] = "until"]
          /\ UNCHANGED <<queue, wkey, calls>>
     ELSE /\ wkey' = [wkey EXCEPT ![w] = GetItem(queue)]
          /\ queue' = Done(AfterGet(queue), GetItem(queue))
          /\ pc' = [pc EXCEPT ![w] = "sync"]
          /\ calls' = [calls EXCEPT ![w] = <<"syncItem">>]
  /\ UNCHANGED <<wres, entrySrc, entryAge, wFrame>>

\* key, quit := c.queue.Get(); on quit worker returns, else it enters syncItem.
WorkerGet(w) ==
  /\ pc[w] = "get"
  /\ ~GetBlocks(queue)
  /\ IF GetQuit(queue)
     THEN /\ pc' = [pc EXCEPT ![w] = "until"]
          /\ UNCHANGED <<queue, wkey, calls>>
     ELSE /\ wkey' = [wkey EXCEPT ![w] = GetItem(queue)]
          /\ queue' = AfterGet(queue)
          /\ pc' = [pc EXCEPT ![w] = "sync"]
          /\ calls' = [calls EXCEPT ![w] = <<"syncItem">>]
  /\ UNCHANGED <<wres, entrySrc, entryAge, wFrame>>

\* requeue, err := c.syncItem(key)
WorkerSync(w, fails) ==
  /\ pc[w] = "sync"
  /\ wres' = [wres EXCEPT ![w] = syncItem(wkey[w], fails)]
  /\ pc' = [pc EXCEPT ![w] = "post"]
  /\ UNCHANGED <<queue, wkey, calls, entrySrc, entryAge, wFrame>>

\* WorkerPost that forgets the key whatever syncItem returned.
WorkerPost_AlwaysForget(w) ==
  /\ pc[w] = "post"
  /\ queue' = Forget(queue, wkey[w])
  /\ calls' = [calls EXCEPT ![w] = Append(@, "Forget")]
  /\ Stamp(queue', "backoff")
  /\ pc' = [pc EXCEPT ![w] = "done"]
  /\ wres' = [wres EXCEPT ![w] = NoResult]
  /\ UNCHANGED <<wkey, wFrame>>

\* WorkerPostBounded without the call of Forget after a success.
WorkerPostBounded_NoForget(w, cap) ==
  /\ pc[w] = "post"
  /\ IF ~wres[w].err /\ ~wres[w].requeue
     THEN /\ queue' = queue
          /\ calls' = [calls EXCEPT ![w] = Append(@, "Forget")]
     ELSE /\ NumRequeues(queue, wkey[w]) < cap \/ queue.shuttingDown
          /\ queue' = AddRateLimited(queue, wkey[w])
          /\ calls' = [calls EXCEPT ![w] = Append(@, "AddRateLimited")]
  /\ Stamp(queue', "backoff")
  /\ pc' = [pc EXCEPT ![w] = "done"]
  /\ wres' = [wres EXCEPT ![w] = NoResult]
  /\ UNCHANGED <<wkey, wFrame>>

\* WorkerPostBounded re-adding a failed key with Add: no back-off, no count.
WorkerPostBounded_PlainAdd(w, cap) ==
  /\ pc[w] = "post"
  /\ IF ~wres[w].err /\ ~wres[w].requeue
     THEN /\ queue' = Forget(queue, wkey[w])
          /\ calls' = [calls EXCEPT ![w] = Append(@, "Forget")]
     ELSE /\ NumRequeues(queue, wkey[w]) < cap \/ queue.shuttingDown
          /\ queue' = Add(queue, wkey[w])
          /\ calls' = [calls EXCEPT ![w] = Append(@, "AddRateLimited")]
  /\ Stamp(queue', "backoff")
  /\ pc' = [pc EXCEPT ![w] = "done"]
  /\ wres' = [wres EXCEPT ![w] = NoResult]
  /\ UNCHANGED <<wkey, wFrame>>

\* if err == nil && !requeue { Forget } else { AddRateLimited }
\* bound: a key is re-added at most cap times in a row while the queue is open.
WorkerPostBounded(w, cap) ==
  /\ pc[w] = "post"
  /\ IF ~wres[w].err /\ ~wres[w].requeue
     THEN /\ queue' = Forget(queue, wkey[w])
          /\ calls' = [calls EXCEPT ![w] = Append(@, "Forget")]
     ELSE /\ NumRequeues(queue, wkey[w]) < cap \/ queue.shuttingDown
          /\ queue' = AddRateLimited(queue, wkey[w])
          /\ calls' = [calls EXCEPT ![w] = Append(@, "AddRateLimited")]
  /\ Stamp(queue', "backoff")
  /\ pc' = [pc EXCEPT ![w] = "done"]
  /\ wres' = [wres EXCEPT ![w] = NoResult]
  /\ UNCHANGED <<wkey, wFrame>>

\* The worker's step after syncItem, as the controller runs it.
WorkerPost(w) == WorkerPostBounded(w, MaxFailures)

\* WorkerDone without the call of c.queue.Done(key).
WorkerDone_DoneMissing(w) ==
  /\ pc[w] = "done"
  /\ calls' = [calls EXCEPT ![w] = <<>>]
  /\ pc' = [pc EXCEPT ![w] = "get"]
  /\ wkey' = [wkey EXCEPT ![w] = NoKey]
  /\ UNCHANGED <<queue, wres, entrySrc, entryAge, wFrame>>

\* defer c.queue.Done(key), and the loop of worker goes round.
WorkerDone(w) ==
  /\ pc[w] = "done"
  /\ queue' = Done(queue, wkey[w])
  /\ calls' = [calls EXCEPT ![w] = <<>>]
  /\ pc' = [pc EXCEPT ![w] = "get"]
  /\ wkey' = [wkey EXCEPT ![w] = NoKey]
  /\ UNCHANGED <<wres, entrySrc, entryAge, wFrame>>

(***************************************************************************)
(* The specification.                                                      *)
(***************************************************************************)
\* What an update notification may carry for an object: its status rewritten,
\* its spec edited, or the object replaced by a new one of the same name.
Flip(x) == 3 - x
Updates(old) ==
  { [old EXCEPT !.status = Flip(@)],
    [old EXCEPT !.spec = Flip(@)],
    [old EXCEPT !.uid = Flip(@)],
    [old EXCEPT !.uid = Flip(@), !.spec = Flip(@)] }

Informer ==
  \/ \E n \in Names : InformerAdd(n)
  \/ \E n \in Names : \E cur \in Updates(cache[n]) : InformerUpdate(n, cur)
  \/ \E n \in Names : InformerResync(n)
  \/ \E n \in Names : InformerDelete(n)
  \/ \E k \in Keys : InformerDeleteUnknown(k)
  \/ InformerDeleteUnkeyable
  \/ InformerSynced

Clock ==
  \/ \E d \in AdvanceSteps : Advance(d)
  \/ \E k \in Keys : WaitingFire(k)

Run ==
  \/ RunWaitForCacheSync
  \/ RunStartWorkers
  \/ RunWaitStop
  \/ RunShutDown

Worker(w) ==
  \/ WorkerUntil(w)
  \/ WorkerGet(w)
  \/ \E fails \in BOOLEAN : WorkerSync(w, fails)
  \/ WorkerPost(w)
  \/ WorkerDone(w)

Next ==
  \/ Informer
  \/ Clock
  \/ Run
  \/ Stop
  \/ \E w \in Workers : Worker(w)

Spec == Init /\ [][Next]_vars

\* The scheduler runs every goroutine that can take a step (Run, the
\* workers), time passes and due timers are served.  The informer and the
\* caller of Run owe nothing.
FairSpec ==
  /\ Spec
  /\ WF_vars(Run)
  /\ WF_vars(\E d \in AdvanceSteps : Advance(d))
  /\ \A k \in Keys : WF_vars(WaitingFire(k))
  /\ \A w \in Workers : WF_vars(Worker(w))

(***************************************************************************)
(* One key followed through its retries.  The behaviours start where the   *)
(* controller is running, the cache has synced and the informer has        *)
(* delivered one notification, the tombstone of an object whose key does   *)
(* not split.  No further notification comes, so that the key can be       *)
(* followed for MaxRetries failures up to the cap of the back-off.         *)
(***************************************************************************)
RetryInit ==
  /\ cache = [n \in Names |-> NoObj]
  /\ hasSynced = TRUE
  /\ stopCh = FALSE
  /\ runPc = "waitStop"
  /\ syncOk = TRUE
  /\ queue = [EmptyQueue EXCEPT !.waiting[BadKey] = policyDeletionGracePeriod]
  /\ pc = [w \in Workers |-> "until"]
  /\ wkey = [w \in Workers |-> NoKey]
  /\ wres = [w \in Workers |-> NoResult]
  /\ calls = [w \in Workers |-> <<>>]
  /\ entrySrc = [k \in Keys |-> IF k = BadKey THEN "delete" ELSE "none"]
  /\ entryAge = [k \in Keys |-> 0]
  /\ nev = 1

RetryWorker(w) ==
  \/ WorkerUntil(w)
  \/ WorkerGet(w)
  \/ \E fails \in BOOLEAN : WorkerSync(w, fails)
  \/ WorkerPostBounded(w, MaxRetries)
  \/ WorkerDone(w)

RetryNext ==
  \/ Clock
  \/ Stop
  \/ RunWaitStop
  \/ RunShutDown
  \/ \E w \in Workers : RetryWorker(w)

RetrySpec == RetryInit /\ [][RetryNext]_vars

\* As in FairSpec: Run and the workers are scheduled, time passes and due
\* timers are served.
FairRetrySpec ==
  /\ RetrySpec
  /\ WF_vars(RunWaitStop \/ RunShutDown)
  /\ WF_vars(\E d \in AdvanceSteps : Advance(d))
  /\ \A k \in Keys : WF_vars(WaitingFire(k))
  /\ \A w \in Workers : WF_vars(RetryWorker(w))

(***************************************************************************)
(* The worker against every result syncItem's signature allows.  The       *)
(* behaviours start where the controller is running, the cache has synced  *)
(* and the objects have been created; the informer delivers updates, and   *)
(* the call of syncItem may return any (requeue, err), so that the worker  *)
(* is exercised on sequences of failures and successes of one key.         *)
(***************************************************************************)
AnyResultInit ==
  /\ cache = [n \in Names |-> Policy(1, 1, 1)]
  /\ hasSynced = TRUE
  /\ stopCh = FALSE
  /\ runPc = "waitStop"
  /\ syncOk = TRUE
  /\ queue = EmptyQueue
  /\ pc = [w \in Workers |-> "until"]
  /\ wkey = [w \in Workers |-> NoKey]
  /\ wres = [w \in Workers |-> NoResult]
  /\ calls = [w \in Workers |-> <<>>]
  /\ entrySrc = [k \in Keys |-> "none"]
  /\ entryAge = [k \in Keys |-> 0]
  /\ nev = Cardinality(Names)

Results == {[fetch |-> "any", requeue |-> r, err |-> e] : r, e \in BOOLEAN}

\* requeue, err := c.syncItem(key), for any result
WorkerSyncAny(w, res) ==
  /\ pc[w] = "sync"
  /\ wres' = [wres EXCEPT ![w] = res]
  /\ pc' = [pc EXCEPT ![w] = "post"]
  /\ UNCHANGED <<queue, wkey, calls, entrySrc, entryAge, wFrame>>

AnyResultWorker(w) ==
  \/ WorkerUntil(w)
  \/ WorkerGet(w)
  \/ \E res \in Results : WorkerSyncAny(w, res)
  \/ WorkerPost(w)
  \/ WorkerDone(w)

AnyResultNext ==
  \/ \E n \in Names : \E cur \in Updates(cache[n]) : InformerUpdate(n, cur)
  \/ Clock
  \/ \E w \in Workers : AnyResultWorker(w)

AnyResultSpec == AnyResultInit /\ [][AnyResultNext]_vars

(***************************************************************************)
(* Properties.                                                             *)
(***************************************************************************)
InSyncItem(w, k) == pc[w] = "sync" /\ wkey[w] = k

\* C1: at most one worker per key: no two workers are inside syncItem for the
\* same key at the same time, whatever the handlers re-add meanwhile.
C1_AtMostOneWorkerPerKey ==
  \A k \in Keys : Cardinality({w \in Workers : InSyncItem(w, k)}) <= 1

\* A key re-added while a worker is inside syncItem for it, with another
\* worker waiting in Get.
C1_Witness ==
  \E w1, w2 \in Workers, k \in Keys :
    /\ w1 # w2
    /\ InSyncItem(w1, k)
    /\ k \in queue.dirty
    /\ pc[w2] = "get"

\* The work items of a key that are pending: its occurrences in the ready
\* list, its timer, and its mark of having been re-added while processed.
PendingCount(k) ==
  Cardinality({i \in DOMAIN queue.items : queue.items[i] = k})
  + (IF queue.waiting[k] # NoTimer THEN 1 ELSE 0)
  + (IF k \in queue.dirty /\ k \in queue.processing THEN 1 ELSE 0)

Relevant(old, cur) == cur.spec # old.spec \/ cur.uid # old.uid

\* C2: dedup: no key ever has more than one pending work item, and after an
\* update notification that changed the spec or the UID the key of the object
\* has exactly one, however often such notifications came before.
C2_Dedup ==
  [][ /\ \A k \in Keys : PendingCount(k)' <= 1
      /\ \A n \in Names : \A cur \in Updates(cache[n]) :
           (InformerUpdate(n, cur) /\ Relevant(cache[n], cur) /\ ~queue.shuttingDown)
             => PendingCount(<<n>>)' = 1 ]_vars

\* Two relevant updates of "a" (the object is back at its first version) came
\* before any worker ran, and the key has its one timer.
C2_Witness ==
  /\ nev = 3
  /\ \A w \in Workers : pc[w] = "idle"
  /\ cache["a"] = Policy(1, 1, 1)
  /\ entrySrc[<<"a">>] = "update"
  /\ queue.waiting[<<"a">>] # NoTimer
  /\ PendingCount(<<"a">>) = 1

InQueue(k) == queue.waiting[k] # NoTimer \/ k \in queue.dirty

\* C3: once the cache has synced, a key that enqueue or AddRateLimited put in
\* the queue is eventually passed to syncItem, unless stopCh is closed first
\* (or the key has used up the failures the model follows).
C3_EnqueuedIsEventuallySynced ==
  \A k \in Keys :
    (InQueue(k) /\ hasSynced)
      ~> ((\E w \in Workers : InSyncItem(w, k)) \/ stopCh
          \/ NumRequeues(queue, k) >= MaxFailures)

\* A key that AddRateLimited re-added is inside syncItem again.
C3_Witness ==
  /\ ~stopCh
  /\ \E w \in Workers : InSyncItem(w, BadKey)
  /\ NumRequeues(queue, BadKey) >= 1

\* C4: a lister error other than not-found makes syncItem return a non-nil
\* error, and the worker then re-adds the key with AddRateLimited.
C4_FetchErrorIsRequeued ==
  [][ \A w \in Workers :
        (pc[w] = "post" /\ pc'[w] = "done" /\ wres[w].fetch = "error")
          => (wres[w].err /\ calls'[w] = <<"syncItem", "AddRateLimited">>) ]_vars

\* C5: the resync notification of an object that exists puts the object's key
\* in the queue (so that a created object is synced after a resync).
C5_ResyncEnqueuesCreated ==
  [][ \A n \in Names :
        (InformerResync(n) /\ ~queue.shuttingDown) => InQueue(<<n>>)' ]_vars

\* C6 as stated: an update whose spec is unchanged is filtered out and leaves
\* the queue as it was.
C6_SpecUnchangedNoEnqueue ==
  [][ \A n \in Names : \A cur \in Updates(cache[n]) :
        (InformerUpdate(n, cur) /\ cur.spec = cache[n].spec)
          => (~needsUpdate(cache[n], cur) /\ queue' = queue) ]_vars

\* C6 amended: an update whose spec and UID are both unchanged (a status
\* update, a resync) is filtered out and leaves the queue as it was.
C6_SpecAndUIDUnchangedNoEnqueue ==
  [][ /\ \A n \in Names : \A cur \in Updates(cache[n]) :
           (InformerUpdate(n, cur) /\ cur.spec = cache[n].spec /\ cur.uid = cache[n].uid)
             => (~needsUpdate(cache[n], cur) /\ queue' = queue)
      /\ \A n \in Names :
           InformerResync(n) => (~needsUpdate(cache[n], cache[n]) /\ queue' = queue) ]_vars

\* The status of "a" was updated and nothing is queued.
C6_Witness ==
  /\ cache["a"] = Policy(1, 1, 2)
  /\ nev = 2
  /\ queue = EmptyQueue

\* C7: a delete notification never makes its key ready at once, and the timer
\* it creates hands the key over only after the grace period has passed.
C7_DeleteWaitsGracePeriod ==
  [][ /\ \A n \in Names :
           InformerDelete(n) => (queue'.items = queue.items /\ queue'.dirty = queue.dirty)
      /\ \A k \in Keys :
           InformerDeleteUnknown(k) => (queue'.items = queue.items /\ queue'.dirty = queue.dirty)
      /\ \A k \in Keys :
           (queue.waiting[k] # NoTimer /\ queue'.waiting[k] = NoTimer /\ entrySrc[k] = "delete")
             => entryAge[k] >= policyDeletionGracePeriod ]_vars

\* The timer of a deleted object has run its grace period and is due.
C7_Witness ==
  /\ ~cache["a"].present
  /\ entrySrc[<<"a">>] = "delete"
  /\ queue.waiting[<<"a">>] = 0
  /\ entryAge[<<"a">>] = policyDeletionGracePeriod

\* C8: for a popped key the worker calls syncItem once, then Forget when the
\* result is (false, nil) and AddRateLimited otherwise, and Done after that,
\* which ends the processing of the key.
C8_WorkerProtocol ==
  [][ \A w \in Workers :
        /\ pc'[w] \in {"sync", "post"} => calls'[w] = <<"syncItem">>
        /\ pc[w] = "sync" => pc'[w] \in {"sync", "post"}
        /\ pc[w] = "post" => pc'[w] \in {"post", "done"}
        /\ (pc[w] = "post" /\ pc'[w] = "done") =>
             calls'[w] = <<"syncItem",
                           IF ~wres[w].err /\ ~wres[w].requeue
                           THEN "Forget" ELSE "AddRateLimited">>
        /\ pc[w] = "done" => (pc'[w] \in {"done", "get"} /\ wkey[w] \in queue.processing)
        /\ (pc[w] = "done" /\ pc'[w] = "get") =>
             (wkey[w] \notin queue'.processing /\ calls'[w] = <<>>) ]_vars

\* One worker is through the Forget branch, another through AddRateLimited,
\* both about to call Done.
C8_Witness ==
  \E w1, w2 \in Workers :
    /\ pc[w1] = "done" /\ calls[w1] = <<"syncItem", "Forget">>
    /\ pc[w2] = "done" /\ calls[w2] = <<"syncItem", "AddRateLimited">>

\* C9: for a key whose object is not in the cache syncItem returns (false, nil),
\* the worker forgets the key and schedules nothing, and after Done the key is
\* neither pending nor in flight nor counted by the rate limiter (unless a
\* handler re-added it meanwhile).
C9_NotFoundIsTerminal ==
  [][ \A w \in Workers : \A k \in Keys :
        /\ (pc[w] = "sync" /\ pc'[w] = "post" /\ wres'[w].fetch = "notfound")
             => (~wres'[w].err /\ ~wres'[w].requeue)
        /\ (pc[w] = "post" /\ pc'[w] = "done" /\ wres[w].fetch = "notfound"
            /\ wkey[w] = k)
             => /\ calls'[w] = <<"syncItem", "Forget">>
                /\ queue'.failures[k] = 0
                /\ queue'.waiting = queue.waiting
                /\ queue'.items = queue.items
                /\ queue'.dirty = queue.dirty
        /\ (pc[w] = "done" /\ pc'[w] = "get" /\ calls[w] = <<"syncItem", "Forget">>
            /\ wkey[w] = k /\ ~InQueue(k))
             => /\ PendingCount(k)' = 0
                /\ k \notin queue'.processing
                /\ queue'.failures[k] = 0 ]_vars

\* "a" was created and deleted, nothing else happened; the delayed sync of
\* its key found nothing, the worker has forgotten the key and is about to
\* call Done.
C9_Witness ==
  \E w \in Workers :
    /\ nev = 2
    /\ ~cache["a"].present
    /\ pc[w] = "done"
    /\ wkey[w] = <<"a">>
    /\ calls[w] = <<"syncItem", "Forget">>
    /\ ~InQueue(<<"a">>)

\* C10: the queue is shut down only by Run, after stopCh fired, and Run then
\* returns; from then on Get hands out no key, so no syncItem begins; Run
\* returns once stopCh has fired and every worker leaves its loop.
C10_Shutdown ==
  /\ [](queue.shuttingDown <=> runPc = "returned")
  /\ [](runPc \in {"shutDown", "returned"} => stopCh)
  /\ [][ queue.shuttingDown =>
           \A w \in Workers :
             /\ pc'[w] = "sync" => pc[w] = "sync"
             /\ (pc[w] = "get" /\ pc'[w] # "get") => pc'[w] = "until" ]_vars
  /\ stopCh ~> (runPc = "returned")
  /\ queue.shuttingDown ~> (\A w \in Workers : pc[w] = "exited")

\* Every worker has left while a key was still ready in the queue.
C10_Witness ==
  /\ queue.shuttingDown
  /\ queue.items # <<>>
  /\ \A w \in Workers : pc[w] = "exited"

\* C11: each failure in a row of a key makes AddRateLimited count one more
\* failure and set a timer of the key's back-off delay; the delay never
\* exceeds the maximum of the rate limiter, and the delay the next failure
\* would get is not smaller.
C11_BackoffNonDecreasingBounded ==
  [][ \A w \in Workers : \A k \in Keys :
        (pc[w] = "post" /\ pc'[w] = "done" /\ wkey[w] = k
         /\ calls'[w] = <<"syncItem", "AddRateLimited">>)
          => /\ NumRequeues(queue', k) = NumRequeues(queue, k) + 1
             /\ When(queue, k) <= MaxDelay
             /\ When(queue', k) >= When(queue, k)
             /\ ~queue.shuttingDown => queue'.waiting[k] = When(queue, k) ]_vars

\* The key has failed so often that its delay is the maximum.
C11_Witness ==
  \E w \in Workers :
    /\ pc[w] = "done"
    /\ wkey[w] = BadKey
    /\ calls[w] = <<"syncItem", "AddRateLimited">>
    /\ NumRequeues(queue, BadKey) >= 19
    /\ queue.waiting[BadKey] = MaxDelay

\* C12: a sync that returns (false, nil) makes the worker call Forget, after
\* which the key has no failures counted and its next back-off delay is the
\* base delay; a sync that fails adds one failure, and the delay of the next
\* retry is strictly larger than the delay of this one.
C12_SuccessResetsBackoff ==
  [][ \A w \in Workers : \A k \in Keys :
        (pc[w] = "post" /\ pc'[w] = "done" /\ wkey[w] = k) =>
          IF ~wres[w].err /\ ~wres[w].requeue
          THEN /\ calls'[w] = <<"syncItem", "Forget">>
               /\ NumRequeues(queue', k) = 0
               /\ When(queue', k) = BaseDelay
          ELSE /\ calls'[w] = <<"syncItem", "AddRateLimited">>
               /\ NumRequeues(queue', k) = NumRequeues(queue, k) + 1
               /\ NumRequeues(queue, k) = 0 => When(queue, k) = BaseDelay
               /\ When(queue', k) > When(queue, k) ]_vars

\* The key of "a" has failed twice and its third sync has just succeeded.
C12_Witness ==
  \E w \in Workers :
    /\ pc[w] = "post"
    /\ wkey[w] = <<"a">>
    /\ ~wres[w].err /\ ~wres[w].requeue
    /\ NumRequeues(queue, <<"a">>) = 2

\* C13: a key that is scheduled again while a worker holds it is not lost:
\* Get hands out no key that is being processed, the key stays scheduled as
\* long as the queue is open, Done makes a key ready whose re-add came in
\* meanwhile, and once Done is due the key gets into syncItem once more
\* (unless stopCh is closed first).
C13_ReAddedInFlightNotLost ==
  /\ [][ \A w \in Workers : \A k \in Keys :
          (pc[w] = "get" /\ pc'[w] = "sync" /\ wkey'[w] = k)
            => (k \notin queue.processing /\ k \in queue'.processing) ]_vars
  /\ [][ \A k \in Keys :
          (k \in queue.processing /\ InQueue(k) /\ ~queue'.shuttingDown)
            => /\ InQueue(k)'
               /\ (k \in queue.dirty /\ k \notin queue'.processing)
                    => PendingCount(k)' = 1 /\ queue'.items # <<>> ]_vars
  /\ \A k \in Keys :
       ((\E w \in Workers : pc[w] = "done" /\ wkey[w] = k) /\ InQueue(k))
         ~> ((\E w \in Workers : InSyncItem(w, k)) \/ stopCh)

\* The key was re-added by AddRateLimited, its back-off timer has fired while
\* the worker still holds the key, and Done is about to be called.
C13_Witness ==
  \E w \in Workers :
    /\ pc[w] = "done"
    /\ wkey[w] = BadKey
    /\ calls[w] = <<"syncItem", "AddRateLimited">>
    /\ BadKey \in queue.dirty
    /\ BadKey \in queue.processing
    /\ ~stopCh

\* C14: when the wait for the cache has failed, the next step of Run is still
\* to start every worker and to wait for stopCh; Run never gets past that
\* point, and never returns, with a worker not started.
C14_SyncFailureStillStartsWorkers ==
  /\ [][ (runPc = "startWorkers" /\ ~syncOk /\ runPc' # runPc)
           => (runPc' = "waitStop" /\ \A w \in Workers : pc'[w] = "until") ]_vars
  /\ [](runPc \in {"waitStop", "shutDown", "returned"}
          => \A w \in Workers : pc[w] # "idle")

\* The wait for the cache failed, and the workers have been started.
C14_Witness ==
  /\ ~syncOk
  /\ ~hasSynced
  /\ runPc = "waitStop"
  /\ \A w \in Workers : pc[w] = "until"

\* C15: a step in which an object is created (it appears in the cache) leaves
\* the queue as it was: a create notification enqueues nothing.
C15_AddNeverEnqueues ==
  [][ \A n \in Names :
        (~cache[n].present /\ cache'[n].present)
          => (queue' = queue /\ entrySrc' = entrySrc) ]_vars

\* "a" has been created, which is all that happened, and the queue is empty.
C15_Witness ==
  /\ nev = 1
  /\ cache["a"].present
  /\ queue = EmptyQueue
  /\ runPc = "waitSync"

\* C16: for an object KeyFunc derives no key from, enqueue returns the queue
\* it was given, and the notification that carries such an object leaves the
\* queue, its timers and its failure counters as they were.
C16_KeyErrorDropsEvent ==
  /\ [](KeyFunc(Unkeyable).err /\ enqueue(queue, Unkeyable) = queue)
  /\ [][ InformerDeleteUnkeyable
           => (queue' = queue /\ entrySrc' = entrySrc /\ entryAge' = entryAge) ]_vars

\* One notification was delivered and neither the cache nor the queue has
\* changed: it carried an object without a key.
C16_Witness ==
  /\ nev = 1
  /\ \A n \in Names : ~cache[n].present
  /\ queue = EmptyQueue

\* C17: a worker is in Get, in syncItem or in the calls that follow it only
\* when the cache has synced; the wait for the cache fails only with stopCh
\* closed, and succeeds only with the cache synced.
C17_NoSyncBeforeCacheSynced ==
  /\ \A w \in Workers : pc[w] \in {"get", "sync", "post", "done"} => hasSynced
  /\ (runPc # "waitSync" /\ ~syncOk) => stopCh
  /\ (runPc # "waitSync" /\ syncOk) => hasSynced

\* The cache never synced, the wait failed on the closed stopCh, and every
\* worker loop has ended without a call of worker.
C17_Witness ==
  /\ ~hasSynced
  /\ stopCh
  /\ runPc # "waitSync"
  /\ \A w \in Workers : pc[w] = "exited"

\* C18: no notification makes a key ready at once; the only change a handler
\* makes to the queue is to start a timer of policyDeletionGracePeriod for a
\* key that had none; and a timer started by an update or a delete hands its
\* key over only when the grace period has passed since.
C18_HandlersEnqueueWithGracePeriod ==
  [][ /\ nev' = nev + 1 =>
           /\ queue'.items = queue.items
           /\ queue'.dirty = queue.dirty
           /\ \A k \in Keys :
                queue'.waiting[k] # queue.waiting[k]
                  => /\ queue.waiting[k] = NoTimer
                     /\ queue'.waiting[k] = policyDeletionGracePeriod
                     /\ entrySrc'[k] \in {"update", "delete"}
      /\ \A k \in Keys :
           (queue.waiting[k] # NoTimer /\ queue'.waiting[k] = NoTimer
            /\ entrySrc[k] \in {"update", "delete"})
             => entryAge[k] >= policyDeletionGracePeriod ]_vars

\* The timer that an update of "a" started has run the grace period and is due.
C18_Witness ==
  /\ cache["a"].present
  /\ entrySrc[<<"a">>] = "update"
  /\ queue.waiting[<<"a">>] = 0
  /\ entryAge[<<"a">>] = policyDeletionGracePeriod

\* C19: for a key that does not split syncItem returns (false, err) whatever
\* the lister would say, the worker answers with AddRateLimited and never with
\* Forget, so the failures of the key only grow; while the queue is open the
\* key is always scheduled or held by a worker, and each failure is followed
\* by one more (unless stopCh is closed first).
C19_UnsplittableKeyRetriedForever ==
  /\ [][ \A w \in Workers :
          /\ (pc[w] = "sync" /\ pc'[w] = "post" /\ wkey[w] = BadKey)
               => (wres'[w].err /\ ~wres'[w].requeue)
          /\ (pc[w] = "post" /\ pc'[w] = "done" /\ wkey[w] = BadKey)
               => /\ calls'[w] = <<"syncItem", "AddRateLimited">>
                  /\ NumRequeues(queue', BadKey) = NumRequeues(queue, BadKey) + 1 ]_vars
  /\ [][ NumRequeues(queue', BadKey) >= NumRequeues(queue, BadKey) ]_vars
  /\ [](~queue.shuttingDown => (InQueue(BadKey) \/ BadKey \in queue.processing))
  /\ \A n \in 0..(MaxRetries - 1) :
       (NumRequeues(queue, BadKey) = n)
         ~> (NumRequeues(queue, BadKey) > n \/ stopCh)

\* The key has failed MaxRetries times and is inside syncItem once more.
C19_Witness ==
  /\ ~stopCh
  /\ \E w \in Workers : InSyncItem(w, BadKey)
  /\ NumRequeues(queue, BadKey) = MaxRetries

=============================================================================
